---- MODULE Spec2Model ----
(***************************************************************************)
(* Model of the working_time app: the WorkingTime and FreelancerTime       *)
(* document hooks (before_validate, validate, on_submit, on_cancel), the   *)
(* rounding of durations to five-minute steps, and the Attendance and      *)
(* Timesheet rows the hooks create and delete.                             *)
(*                                                                         *)
(* Values.  A time is the string the client sends ("HH:MM:SS"), kept as a  *)
(* tuple of one-character strings so that slicing is modelled; an unset    *)
(* time (None or "") is the empty tuple.  An optional number (a duration)  *)
(* is <<>> for None and <<n>> for n.  An unset link or key is "".  Hours   *)
(* are exact fractions [num, den], as Python computes n * 300 / 3600.      *)
(* Fields of the created rows that no property reads (rates, customer,     *)
(* description text, issue URL) are not carried; the lookups that produce  *)
(* them are, because they can raise.                                       *)
(***************************************************************************)
EXTENDS Integers, Sequences, FiniteSets, TLC

VARIABLES
    self,         \* the document the running hook works on
    outcome,      \* how the last request ended
    attendance,   \* table Attendance
    timesheets,   \* table Timesheet
    next_name,    \* naming counter of Timesheet
    docstatus,    \* docstatus of every WorkingTime and FreelancerTime record
    savepoint,    \* the tables as the running transaction found them
    round         \* one log put through the rounding formulas

vars == <<self, outcome, attendance, timesheets, next_name, docstatus, savepoint, round>>

-----------------------------------------------------------------------------
(* Bounds of the model *)

MaxLogs == 3
MaxSaveLogs == 2
MaxSubmitLogs == 2
MaxDuration == 700

-----------------------------------------------------------------------------
(* Module constants, working_time.py 12-16.  HALF_DAY and OVERTIME_FACTOR  *)
(* are the decimals 3.25 and 1.15; they are kept as hundredths, so         *)
(* MAX_HALF_DAY_E4 is MAX_HALF_DAY * 10000 (13455 s * 10000).              *)

HALF_DAY_E2 == 325
OVERTIME_FACTOR_E2 == 115
MAX_HALF_DAY_E4 == HALF_DAY_E2 * OVERTIME_FACTOR_E2 * 60 * 60
FIVE_MINUTES == 5 * 60
ONE_HOUR == 60 * 60

-----------------------------------------------------------------------------
(* Python values *)

None == <<>>
Some(n) == <<n>>

\* truth value of an optional number: None and 0 are false
Truthy(d) == d # None /\ d[1] # 0

\* truth value of a time, a tuple of characters: the empty one is false
HasTime(t) == t # <<>>

\* truth value of a link or a key, a string: None and "" are both "" here
IsSet(s) == s # ""

Digits ==
    "0" :> 0 @@ "1" :> 1 @@ "2" :> 2 @@ "3" :> 3 @@ "4" :> 4 @@
    "5" :> 5 @@ "6" :> 6 @@ "7" :> 7 @@ "8" :> 8 @@ "9" :> 9

DigitVal(c) == Digits[c]

RECURSIVE ParseInt(_)
ParseInt(s) ==
    IF s = <<>> THEN 0
    ELSE 10 * ParseInt(SubSeq(s, 1, Len(s) - 1)) + DigitVal(s[Len(s)])

\* seconds since midnight of "HH:MM:SS"
SecondsOf(t) ==
    ParseInt(SubSeq(t, 1, 2)) * 3600
    + ParseInt(SubSeq(t, 4, 5)) * 60
    + ParseInt(SubSeq(t, 7, 8))

time_diff_in_seconds(a, b) == SecondsOf(a) - SecondsOf(b)

\* math.ceil(a / b) for b > 0
Ceil(a, b) == -((-a) \div b)

RECURSIVE SumSeq(_)
SumSeq(s) == IF s = <<>> THEN 0 ELSE s[1] + SumSeq(Tail(s))

\* exact fractions
Frac(n, d) == [num |-> n, den |-> d]
FracLeq(a, b) == a.num * b.den <= b.num * a.den
FracEq(a, b) == a.num * b.den = b.num * a.den

-----------------------------------------------------------------------------
(* Rounding, create_timesheets of both doctypes *)

HoursFloor(duration) ==
    Frac((duration \div FIVE_MINUTES) * FIVE_MINUTES, ONE_HOUR)

\* math.ceil(log.duration / FIVE_MINUTES) * FIVE_MINUTES / ONE_HOUR
Hours(duration) ==
    Frac(Ceil(duration, FIVE_MINUTES) * FIVE_MINUTES, ONE_HOUR)

\* float(log.billable[:-1])
BillablePercent(billable) == ParseInt(SubSeq(billable, 1, Len(billable) - 1))

BillingHoursPercentUnscaled(duration, billable) ==
    Frac(Ceil(duration * BillablePercent(billable), FIVE_MINUTES) * FIVE_MINUTES,
         ONE_HOUR)

\* math.ceil(log.duration * float(log.billable[:-1]) / 100 / FIVE_MINUTES)
\*     * FIVE_MINUTES / ONE_HOUR
BillingHours(duration, billable) ==
    Frac(Ceil(duration * BillablePercent(billable), 100 * FIVE_MINUTES) * FIVE_MINUTES,
         ONE_HOUR)

\* billing_hours = hours = ... of FreelancerTime
FreelancerBillingHours(duration) == Hours(duration)

-----------------------------------------------------------------------------
(* WorkingTime.before_validate *)

Truncate(t) == IF HasTime(t) THEN SubSeq(t, 1, Len(t) - 2) \o <<"0", "0">> ELSE t

remove_seconds_from_time_only(logs) ==
    [i \in 1..Len(logs) |->
        [logs[i] EXCEPT !.from_time = Truncate(logs[i].from_time)]]

remove_seconds(logs) ==
    [i \in 1..Len(logs) |->
        [logs[i] EXCEPT !.from_time = Truncate(logs[i].from_time),
                        !.to_time = Truncate(logs[i].to_time)]]

set_to_times(logs) ==
    [i \in 1..Len(logs) |->
        IF i < Len(logs)
        THEN [logs[i] EXCEPT !.to_time = logs[i + 1].from_time]
        ELSE logs[i]]

\* the loop body's first statement: log.duration
LogDuration(log) ==
    IF HasTime(log.from_time) /\ HasTime(log.to_time)
    THEN Some(time_diff_in_seconds(log.to_time, log.from_time))
    ELSE log.duration

DurationValue(d) == IF Truthy(d) THEN d[1] ELSE 0

TotalOf(logs, is_break) ==
    SumSeq([i \in 1..Len(logs) |->
        IF logs[i].is_break = is_break THEN DurationValue(logs[i].duration) ELSE 0])

set_durations_accumulating(doc) ==
    LET logs == [i \in 1..Len(doc.time_logs) |->
                    [doc.time_logs[i] EXCEPT !.duration = LogDuration(doc.time_logs[i])]]
    IN  [doc EXCEPT !.time_logs = logs,
                    !.break_time = doc.break_time + TotalOf(logs, TRUE),
                    !.working_time = doc.working_time + TotalOf(logs, FALSE)]

set_durations(doc) ==
    LET logs == [i \in 1..Len(doc.time_logs) |->
                    [doc.time_logs[i] EXCEPT !.duration = LogDuration(doc.time_logs[i])]]
    IN  [doc EXCEPT !.time_logs = logs,
                    !.break_time = 0 + TotalOf(logs, TRUE),
                    !.working_time = 0 + TotalOf(logs, FALSE)]

before_validate(doc) ==
    set_durations([doc EXCEPT !.time_logs = set_to_times(remove_seconds(doc.time_logs))])

-----------------------------------------------------------------------------
(* WorkingTime.validate: TRUE when it returns, FALSE when it throws *)

validate_last_log_only(doc) ==
    LET n == Len(doc.time_logs)
    IN  n = 0 \/ ~(Truthy(doc.time_logs[n].duration) /\ doc.time_logs[n].duration[1] < 0)

validate(doc) ==
    \A i \in 1..Len(doc.time_logs) :
        ~(Truthy(doc.time_logs[i].duration) /\ doc.time_logs[i].duration[1] < 0)

-----------------------------------------------------------------------------
(* Documents *)

T(h1, h2, m1, m2, s1, s2) == <<h1, h2, ":", m1, m2, ":", s1, s2>>

B100 == <<"1", "0", "0", "%">>

NewWorkingTime(name, employee, date) ==
    [doctype |-> "Working Time", name |-> name, employee |-> employee, date |-> date,
     time_logs |-> <<>>, break_time |-> 0, working_time |-> 0]

WorkingTimeLog(from_time, to_time, duration, is_break, project, billable, key) ==
    [from_time |-> from_time, to_time |-> to_time, duration |-> duration,
     is_break |-> is_break, project |-> project, billable |-> billable, key |-> key]

RemoveAt(s, i) == SubSeq(s, 1, i - 1) \o SubSeq(s, i + 1, Len(s))

-----------------------------------------------------------------------------
(* Saving a WorkingTime: the client sends the document and the lifecycle   *)
(* runs before_validate, then validate.                                    *)

SaveRequest(doc) ==
    /\ self' = before_validate(doc)
    /\ outcome' = IF validate(self') THEN "saved" ELSE "rejected"
    /\ UNCHANGED <<attendance, timesheets, next_name, docstatus, savepoint, round>>

NoSavepoint == <<>>

NoTables ==
    /\ attendance = <<>>
    /\ timesheets = {}
    /\ next_name = 1
    /\ docstatus = [n \in {"WT-1"} |-> 0]
    /\ savepoint = NoSavepoint

NoRound == round = [pc |-> "none"]

-----------------------------------------------------------------------------
(* SpecNorm: one WorkingTime with any punches, saved and saved again *)

NormTimes ==
    { None,
      T("0", "9", "0", "0", "0", "0"),
      T("0", "9", "0", "5", "3", "0"),
      T("1", "2", "0", "0", "0", "0") }

NormLogs ==
    { WorkingTimeLog(f, t, None, FALSE, "", B100, "") : f \in NormTimes, t \in NormTimes }

FirstSave ==
    /\ outcome = "new"
    /\ SaveRequest(self)

SaveUnchanged ==
    /\ outcome # "new"
    /\ SaveRequest(self)

InitNorm ==
    /\ \E n \in 0..MaxLogs : \E logs \in [1..n -> NormLogs] :
          self = [NewWorkingTime("WT-1", "EMP-1", "D1") EXCEPT !.time_logs = logs]
    /\ outcome = "new"
    /\ NoTables
    /\ NoRound

NextNorm ==
    \/ FirstSave
    \/ SaveUnchanged

SpecNorm == InitNorm /\ [][NextNorm]_vars

-----------------------------------------------------------------------------
(* SpecSave: one WorkingTime edited and saved over and over *)

SaveTimes ==
    { None,
      T("0", "9", "0", "0", "0", "0"),
      T("1", "2", "4", "5", "3", "0") }

SaveAppended ==
    /\ Len(self.time_logs) < MaxSaveLogs
    /\ \E f \in SaveTimes, t \in SaveTimes, b \in BOOLEAN :
          SaveRequest([self EXCEPT !.time_logs =
              Append(@, WorkingTimeLog(f, t, None, b, "", B100, ""))])

SaveFromTime ==
    \E i \in 1..Len(self.time_logs), t \in SaveTimes :
        /\ t # self.time_logs[i].from_time
        /\ SaveRequest([self EXCEPT !.time_logs[i].from_time = t])

SaveToTime ==
    \E i \in 1..Len(self.time_logs), t \in SaveTimes :
        /\ t # self.time_logs[i].to_time
        /\ SaveRequest([self EXCEPT !.time_logs[i].to_time = t])

SaveIsBreak ==
    \E i \in 1..Len(self.time_logs) :
        SaveRequest([self EXCEPT !.time_logs[i].is_break = ~@])

SaveDuration ==
    \E i \in 1..Len(self.time_logs), d \in {None, Some(60)} :
        /\ d # self.time_logs[i].duration
        /\ SaveRequest([self EXCEPT !.time_logs[i].duration = d])

SaveRemoved ==
    \E i \in 1..Len(self.time_logs) :
        SaveRequest([self EXCEPT !.time_logs = RemoveAt(@, i)])

SaveAgain ==
    /\ outcome # "new"
    /\ SaveRequest(self)

InitSave ==
    /\ self = NewWorkingTime("WT-1", "EMP-1", "D1")
    /\ outcome = "new"
    /\ NoTables
    /\ NoRound

NextSave ==
    \/ SaveAppended
    \/ SaveFromTime
    \/ SaveToTime
    \/ SaveIsBreak
    \/ SaveDuration
    \/ SaveRemoved
    \/ SaveAgain

SpecSave == InitSave /\ [][NextSave]_vars

-----------------------------------------------------------------------------
(* SpecRound: one time log put through the rounding of create_timesheets   *)
(* of WorkingTime and of FreelancerTime.                                   *)

DigitChar(n) == <<"0", "1", "2", "3", "4", "5", "6", "7", "8", "9">>[n + 1]

\* the percentage p written as the field holds it: "0%" .. "100%"
Percent(p) ==
    IF p < 10 THEN <<DigitChar(p), "%">>
    ELSE IF p < 100 THEN <<DigitChar(p \div 10), DigitChar(p % 10), "%">>
    ELSE <<DigitChar(p \div 100), DigitChar((p \div 10) % 10), DigitChar(p % 10), "%">>

Billables == { Percent(p) : p \in 0..100 }

RoundWorkingTime ==
    /\ round.pc = "log"
    /\ round' = [round EXCEPT !.pc = "Working Time",
                              !.hours = Hours(round.duration),
                              !.billing_hours = BillingHours(round.duration, round.billable)]
    /\ UNCHANGED <<self, outcome, attendance, timesheets, next_name, docstatus, savepoint>>

RoundFreelancerTime ==
    /\ round.pc = "log"
    /\ round' = [round EXCEPT !.pc = "Freelancer Time",
                              !.hours = Hours(round.duration),
                              !.billing_hours = FreelancerBillingHours(round.duration)]
    /\ UNCHANGED <<self, outcome, attendance, timesheets, next_name, docstatus, savepoint>>

InitRound ==
    /\ \E d \in 0..MaxDuration, b \in Billables :
          round = [pc |-> "log", duration |-> d, billable |-> b,
                   hours |-> Frac(0, 1), billing_hours |-> Frac(0, 1)]
    /\ self = NewWorkingTime("WT-1", "EMP-1", "D1")
    /\ outcome = "new"
    /\ NoTables

NextRound ==
    \/ RoundWorkingTime
    \/ RoundFreelancerTime

SpecRound == InitRound /\ [][NextRound]_vars

-----------------------------------------------------------------------------
(* Properties of the rounding (SpecRound) *)

\* C7: for every duration d >= 0 the hours of both variants never under-round
\* (hours * 3600 >= d), exceed d by less than 300 s, and are at least the hours of
\* the duration one second shorter (so of every shorter one); hours(0) = 0 and
\* every d in 1..300 gives 300 s.
C7_HoursRoundUp ==
    round.pc \in {"Working Time", "Freelancer Time"} =>
        LET d == round.duration
            h == round.hours
        IN  /\ h.num * 3600 >= d * h.den
            /\ h.num * 3600 - d * h.den < 300 * h.den
            /\ (d > 0 => FracLeq(Hours(d - 1), h))
            /\ (d = 0 => h.num = 0)
            /\ (d \in 1..300 => h.num * 3600 = 300 * h.den)

C7_Witness ==
    /\ round.pc = "Freelancer Time"
    /\ round.duration = 301
    /\ round.hours = Frac(600, 3600)

\* C8: a WorkingTime log of duration d > 0 and billable percentage in 0..100 has
\* billing_hours <= hours, with equality at 100%; a FreelancerTime log has
\* billing_hours = hours.
C8_BillingAtMostHours ==
    /\ round.pc = "Working Time" /\ round.duration > 0 =>
          /\ FracLeq(round.billing_hours, round.hours)
          /\ (round.billable = B100 => FracEq(round.billing_hours, round.hours))
    /\ round.pc = "Freelancer Time" => round.billing_hours = round.hours

C8_Witness ==
    /\ round.pc = "Working Time"
    /\ round.duration = 601
    /\ round.billable = <<"5", "0", "%">>
    /\ round.billing_hours = Frac(600, 3600)
    /\ round.hours = Frac(900, 3600)

-----------------------------------------------------------------------------
(* Properties of before_validate (SpecNorm, SpecSave) *)

HasSeconds00(t) == HasTime(t) => SubSeq(t, 7, 8) = <<"0", "0">>

SameToTheMinute(given, kept) ==
    IF HasTime(given)
    THEN SubSeq(kept, 1, 6) = SubSeq(given, 1, 6) /\ SubSeq(kept, 7, 8) = <<"0", "0">>
    ELSE kept = given

\* C9: after before_validate every set from_time and to_time has seconds 00, every
\* log but the last has the next log's truncated from_time as its to_time, the last
\* log keeps its given to_time truncated, and every log with both times set has
\* duration = to_time - from_time in seconds; from_times 09:00, 09:05:30, 12:00
\* give the first two logs 300 s and 10500 s.
C9_Normalized ==
    [][(FirstSave \/ SaveUnchanged) =>
        LET given == self.time_logs
            logs == self'.time_logs
            n == Len(given)
        IN  /\ Len(logs) = n
            /\ \A i \in 1..n :
                  /\ SameToTheMinute(given[i].from_time, logs[i].from_time)
                  /\ HasSeconds00(logs[i].to_time)
                  /\ i < n => logs[i].to_time = logs[i + 1].from_time
                  /\ i = n => SameToTheMinute(given[i].to_time, logs[i].to_time)
                  /\ HasTime(logs[i].from_time) /\ HasTime(logs[i].to_time) =>
                        logs[i].duration =
                            Some(SecondsOf(logs[i].to_time) - SecondsOf(logs[i].from_time))
            /\ ( /\ n = 3
                 /\ given[1].from_time = T("0", "9", "0", "0", "0", "0")
                 /\ given[2].from_time = T("0", "9", "0", "5", "3", "0")
                 /\ given[3].from_time = T("1", "2", "0", "0", "0", "0") ) =>
                    /\ logs[1].duration = Some(300)
                    /\ logs[2].duration = Some(10500) ]_vars

C9_Witness ==
    /\ outcome = "saved"
    /\ Len(self.time_logs) = 3
    /\ self.time_logs[1].from_time = T("0", "9", "0", "0", "0", "0")
    /\ self.time_logs[2].from_time = T("0", "9", "0", "5", "0", "0")
    /\ self.time_logs[3].from_time = T("1", "2", "0", "0", "0", "0")
    /\ self.time_logs[3].to_time = T("1", "2", "0", "0", "0", "0")
    /\ self.time_logs[1].duration = Some(300)
    /\ self.time_logs[2].duration = Some(10500)

RECURSIVE SumOfDurations(_, _)
SumOfDurations(logs, is_break) ==
    IF logs = <<>> THEN 0
    ELSE (IF Head(logs).is_break = is_break /\ Head(logs).duration # None
          THEN Head(logs).duration[1] ELSE 0)
         + SumOfDurations(Tail(logs), is_break)

\* C10: after every before_validate pass, whatever passes and edits came before,
\* break_time is the sum of the durations of the break logs and working_time the sum
\* of the durations of the other logs, and one more pass on the unchanged logs
\* changes neither the logs nor the totals.
C10_TotalsRecomputed ==
    outcome # "new" =>
        /\ self.break_time = SumOfDurations(self.time_logs, TRUE)
        /\ self.working_time = SumOfDurations(self.time_logs, FALSE)
        /\ before_validate(self) = self

C10_Witness ==
    /\ outcome = "saved"
    /\ self.break_time > 0
    /\ self.working_time > 0
    /\ \E i \in 1..Len(self.time_logs) :
          /\ ~HasTime(self.time_logs[i].to_time)
          /\ Truthy(self.time_logs[i].duration)

-----------------------------------------------------------------------------
(* Tables and lookups of the submit hooks *)

\* table Project
Projects == {"P1"}

\* frappe.db.exists("Attendance", {"employee": ..., "attendance_date": ...})
AttendanceExists(table, employee, date) ==
    \E i \in 1..Len(table) :
        table[i].employee = employee /\ table[i].attendance_date = date

create_attendance_at_threshold(doc, table) ==
    IF ~AttendanceExists(table, doc.employee, doc.date)
    THEN Append(table,
            [employee |-> doc.employee,
             status |-> IF doc.working_time * 10000 >= MAX_HALF_DAY_E4
                        THEN "Present" ELSE "Half Day",
             attendance_date |-> doc.date,
             working_time |-> doc.name,
             docstatus |-> 1])
    ELSE table

create_attendance_unguarded(doc, table) ==
    Append(table,
        [employee |-> doc.employee,
         status |-> IF doc.working_time * 10000 > MAX_HALF_DAY_E4
                    THEN "Present" ELSE "Half Day",
         attendance_date |-> doc.date,
         working_time |-> doc.name,
         docstatus |-> 1])

\* WorkingTime.create_attendance: the table after the call
create_attendance(doc, table) ==
    IF ~AttendanceExists(table, doc.employee, doc.date)
    THEN Append(table,
            [employee |-> doc.employee,
             status |-> IF doc.working_time * 10000 > MAX_HALF_DAY_E4
                        THEN "Present" ELSE "Half Day",
             attendance_date |-> doc.date,
             working_time |-> doc.name,
             docstatus |-> 1])
    ELSE table

\* The state of one create_timesheets call: the Timesheet table, the naming
\* counter, the issue summaries fetched so far and whether an exception left the loop.
Running(table, counter) ==
    [timesheets |-> table, next_name |-> counter, fetched |-> 0, raised |-> FALSE]

\* frappe.get_value("Project", log.project, [...]) unpacked into three names:
\* raises when the project has no row
ProjectLookupRaises(project) == project \notin Projects

\* JiraClient(jira_site).get_issue_summary(key) inside get_description: the tracker
\* answers the first `answers` fetches of a request and fails from then on
SummaryFetchRaises(key, st, answers) == IsSet(key) /\ st.fetched >= answers

Inserted(st, key, row) ==
    [st EXCEPT !.timesheets = @ \cup {row},
               !.next_name = @ + 1,
               !.fetched = IF IsSet(key) THEN @ + 1 ELSE @]

WorkingTimeRow(doc, log, name) ==
    [name |-> name,
     docstatus |-> 0,
     time_logs |-> << [is_billable |-> 1,
                       project |-> log.project,
                       activity_type |-> "Default",
                       hours |-> Hours(log.duration[1]),
                       from_time |-> doc.date,
                       billing_hours |-> BillingHours(log.duration[1], log.billable)] >>,
     parent_project |-> log.project,
     employee |-> doc.employee,
     working_time |-> doc.name,
     freelancer_time |-> ""]

working_time_log_skipping_failures(doc, log, st, answers) ==
    IF Truthy(log.duration) /\ IsSet(log.project)
    THEN IF ProjectLookupRaises(log.project) \/ SummaryFetchRaises(log.key, st, answers)
         THEN st
         ELSE Inserted(st, log.key, WorkingTimeRow(doc, log, st.next_name))
    ELSE st

\* the body of the loop of WorkingTime.create_timesheets
working_time_log(doc, log, st, answers) ==
    IF Truthy(log.duration) /\ IsSet(log.project)
    THEN IF ProjectLookupRaises(log.project) \/ SummaryFetchRaises(log.key, st, answers)
         THEN [st EXCEPT !.raised = TRUE]
         ELSE Inserted(st, log.key, WorkingTimeRow(doc, log, st.next_name))
    ELSE st

RECURSIVE working_time_loop(_, _, _, _)
working_time_loop(doc, i, st, answers) ==
    IF i > Len(doc.time_logs) \/ st.raised THEN st
    ELSE working_time_loop(doc, i + 1,
                           working_time_log(doc, doc.time_logs[i], st, answers), answers)

\* WorkingTime.create_timesheets
create_timesheets(doc, table, counter, answers) ==
    working_time_loop(doc, 1, Running(table, counter), answers)

FreelancerTimeRow(doc, log, name) ==
    [name |-> name,
     docstatus |-> 0,
     time_logs |-> << [is_billable |-> 1,
                       project |-> log.project,
                       activity_type |-> "Default",
                       hours |-> Hours(log.duration[1]),
                       from_time |-> log.date,
                       billing_hours |-> FreelancerBillingHours(log.duration[1])] >>,
     parent_project |-> log.project,
     employee |-> "",
     working_time |-> "",
     freelancer_time |-> doc.name]

\* the body of the loop of FreelancerTime.create_timesheets
freelancer_time_log(doc, log, st, answers) ==
    IF Truthy(log.duration) /\ IsSet(log.project)
    THEN IF ProjectLookupRaises(log.project)
            \/ SummaryFetchRaises(log.issue_key, st, answers)
         THEN [st EXCEPT !.raised = TRUE]
         ELSE Inserted(st, log.issue_key, FreelancerTimeRow(doc, log, st.next_name))
    ELSE st

RECURSIVE freelancer_time_loop(_, _, _, _)
freelancer_time_loop(doc, i, st, answers) ==
    IF i > Len(doc.time_logs) \/ st.raised THEN st
    ELSE freelancer_time_loop(doc, i + 1,
                              freelancer_time_log(doc, doc.time_logs[i], st, answers),
                              answers)

\* FreelancerTime.create_timesheets
freelancer_create_timesheets(doc, table, counter, answers) ==
    freelancer_time_loop(doc, 1, Running(table, counter), answers)

delete_draft_timesheets_of_any_status(name, table) ==
    { t \in table : ~(t.freelancer_time = name) }

\* FreelancerTime.delete_draft_timesheets: the table after the call
delete_draft_timesheets(name, table) ==
    { t \in table : ~(t.freelancer_time = name /\ t.docstatus = 0) }

-----------------------------------------------------------------------------
(* Requests.  The lifecycle host runs one request at a time, each in one   *)
(* transaction: the hooks of a submit run in the order before_validate,    *)
(* validate, on_submit, and an exception leaving a hook rolls the          *)
(* transaction back.  The document object lives until the request ends.    *)

Idle == [doctype |-> "none"]

Savepoint ==
    [attendance |-> attendance, timesheets |-> timesheets, next_name |-> next_name]

\* the tables a transaction leaves: what it wrote, or what it found when it raised
Committed(raised, found, written) == IF raised THEN found ELSE written

SubmitWorkingTime(record, logs, answers) ==
    /\ self = Idle
    /\ docstatus[record.name] = 0
    /\ \E doc \in {before_validate(
                    [NewWorkingTime(record.name, record.employee, record.date)
                        EXCEPT !.time_logs = logs])} :
       \E st \in {create_timesheets(doc, timesheets, next_name, answers)} :
       LET valid == validate(doc)
           raised == ~valid \/ st.raised
       IN  /\ self' = doc
           /\ outcome' = IF ~valid THEN "rejected"
                         ELSE IF st.raised THEN "failed" ELSE "submitted"
           /\ attendance' = Committed(raised, attendance,
                                      create_attendance(doc, attendance))
           /\ timesheets' = Committed(raised, timesheets, st.timesheets)
           /\ next_name' = Committed(raised, next_name, st.next_name)
           /\ docstatus' = Committed(raised, docstatus,
                                     [docstatus EXCEPT ![record.name] = 1])
    /\ savepoint' = Savepoint
    /\ UNCHANGED round

NewFreelancerTime(name, logs) ==
    [doctype |-> "Freelancer Time", name |-> name, time_logs |-> logs]

FreelancerTimeLog(duration, project, issue_key) ==
    [duration |-> duration, project |-> project, issue_key |-> issue_key, date |-> "D1"]

SubmitFreelancerTime(name, logs, answers) ==
    /\ self = Idle
    /\ docstatus[name] = 0
    /\ \E doc \in {NewFreelancerTime(name, logs)} :
       \E st \in {freelancer_create_timesheets(doc, timesheets, next_name, answers)} :
           /\ self' = doc
           /\ outcome' = IF st.raised THEN "failed" ELSE "submitted"
           /\ timesheets' = Committed(st.raised, timesheets, st.timesheets)
           /\ next_name' = Committed(st.raised, next_name, st.next_name)
           /\ docstatus' = Committed(st.raised, docstatus,
                                     [docstatus EXCEPT ![name] = 1])
    /\ savepoint' = Savepoint
    /\ UNCHANGED <<attendance, round>>

\* on_cancel reads no field of the document but its name
CancelFreelancerTime(name) ==
    /\ self = Idle
    /\ docstatus[name] = 1
    /\ self' = [doctype |-> "Freelancer Time", name |-> name]
    /\ outcome' = "cancelled"
    /\ timesheets' = delete_draft_timesheets(name, timesheets)
    /\ docstatus' = [docstatus EXCEPT ![name] = 2]
    /\ savepoint' = Savepoint
    /\ UNCHANGED <<attendance, next_name, round>>

\* a draft Timesheet is submitted by its approver
TimesheetSubmitted ==
    /\ self = Idle
    /\ \E t \in timesheets :
          /\ t.docstatus = 0
          /\ timesheets' = (timesheets \ {t}) \cup {[t EXCEPT !.docstatus = 1]}
    /\ UNCHANGED <<self, outcome, attendance, next_name, docstatus, savepoint, round>>

\* a submitted WorkingTime is cancelled and amended: the amended copy, a draft with
\* the same employee and date, is identified with the record it amends
WorkingTimeAmended ==
    /\ self = Idle
    /\ \E n \in DOMAIN docstatus :
          /\ docstatus[n] = 1
          /\ docstatus' = [docstatus EXCEPT ![n] = 0]
    /\ UNCHANGED <<self, outcome, attendance, timesheets, next_name, savepoint, round>>

RequestEnds ==
    /\ self # Idle
    /\ self' = Idle
    /\ outcome' = "idle"
    /\ savepoint' = NoSavepoint
    /\ UNCHANGED <<attendance, timesheets, next_name, docstatus, round>>

-----------------------------------------------------------------------------
(* Spec: a WorkingTime and a FreelancerTime submitted, with time logs of    *)
(* every kind the submit hooks tell apart.                                 *)

WT1 == [name |-> "WT-1", employee |-> "EMP-1", date |-> "D1"]

B50 == <<"5", "0", "%">>

\* (project, issue key) of a log: no project, a project with and without an issue
\* on the tracker, a project that has no row
ProjectKeys == { <<"", "">>, <<"P1", "">>, <<"P1", "ABC-1">>, <<"PX", "">> }

SubmitTimes == { None, T("0", "9", "0", "0", "0", "0"), T("1", "2", "4", "5", "0", "0") }

WorkingTimeLogs ==
    { WorkingTimeLog(f, T("1", "7", "0", "0", "3", "0"), None, FALSE, pk[1], B50, pk[2]) :
        f \in SubmitTimes, pk \in ProjectKeys }

FreelancerTimeLogs ==
    { FreelancerTimeLog(d, pk[1], pk[2]) :
        d \in {None, Some(0), Some(-300), Some(301)}, pk \in ProjectKeys }

WorkingTimeDocs == UNION { [1..n -> WorkingTimeLogs] : n \in 0..MaxSubmitLogs }

FreelancerTimeDocs == UNION { [1..n -> FreelancerTimeLogs] : n \in 0..MaxSubmitLogs }

WorkingTimeSubmits ==
    /\ self = Idle
    /\ \E logs \in WorkingTimeDocs : \E answers \in 0..Len(logs) :
          SubmitWorkingTime(WT1, logs, answers)

FreelancerTimeSubmits ==
    /\ self = Idle
    /\ \E logs \in FreelancerTimeDocs : \E answers \in 0..Len(logs) :
          SubmitFreelancerTime("FT-1", logs, answers)

Init ==
    /\ self = Idle
    /\ outcome = "idle"
    /\ attendance = <<>>
    /\ timesheets = {}
    /\ next_name = 1
    /\ docstatus = [n \in {"WT-1", "FT-1"} |-> 0]
    /\ savepoint = NoSavepoint
    /\ NoRound

Next ==
    \/ WorkingTimeSubmits
    \/ FreelancerTimeSubmits
    \/ RequestEnds

Spec == Init /\ [][Next]_vars

-----------------------------------------------------------------------------
(* SpecCancel: two FreelancerTime records submitted and cancelled while    *)
(* their Timesheets are submitted one by one.                              *)

FreelancerTimes == {"FT-1", "FT-2"}

BillableLogs ==
    { FreelancerTimeLog(Some(301), "P1", ""), FreelancerTimeLog(None, "", "") }

BillableDocs == UNION { [1..n -> BillableLogs] : n \in 0..MaxSubmitLogs }

BillableSubmits ==
    /\ self = Idle
    /\ \E name \in FreelancerTimes, logs \in BillableDocs :
          SubmitFreelancerTime(name, logs, Len(logs))

FreelancerTimeCancels ==
    \E name \in FreelancerTimes : CancelFreelancerTime(name)

InitCancel ==
    /\ self = Idle
    /\ outcome = "idle"
    /\ attendance = <<>>
    /\ timesheets = {}
    /\ next_name = 1
    /\ docstatus = [n \in FreelancerTimes |-> 0]
    /\ savepoint = NoSavepoint
    /\ NoRound

NextCancel ==
    \/ BillableSubmits
    \/ FreelancerTimeCancels
    \/ TimesheetSubmitted
    \/ RequestEnds

SpecCancel == InitCancel /\ [][NextCancel]_vars

-----------------------------------------------------------------------------
(* SpecAtt: WorkingTime records of two employees and two dates, two of     *)
(* them for the same employee and date, submitted, amended and submitted   *)
(* again.                                                                  *)

WorkingTimes ==
    { [name |-> "WT-1", employee |-> "EMP-1", date |-> "D1"],
      [name |-> "WT-2", employee |-> "EMP-1", date |-> "D1"],
      [name |-> "WT-3", employee |-> "EMP-1", date |-> "D2"],
      [name |-> "WT-4", employee |-> "EMP-2", date |-> "D1"] }

\* logs that carry a duration and no punches, and a morning of punches
AttendanceLogs ==
    { WorkingTimeLog(None, None, Some(13455), FALSE, "", B100, ""),
      WorkingTimeLog(None, None, Some(1), FALSE, "", B100, ""),
      WorkingTimeLog(None, None, Some(1), TRUE, "", B100, ""),
      WorkingTimeLog(T("0", "9", "0", "0", "0", "0"), T("1", "2", "4", "5", "3", "0"),
                     None, FALSE, "", B100, "") }

AttendanceDocs == UNION { [1..n -> AttendanceLogs] : n \in 0..MaxSubmitLogs }

AttendanceSubmits ==
    /\ self = Idle
    /\ \E record \in WorkingTimes, logs \in AttendanceDocs :
          SubmitWorkingTime(record, logs, 0)

\* an Attendance entered by hand before any WorkingTime is submitted
OnLeave ==
    [employee |-> "EMP-2", status |-> "On Leave", attendance_date |-> "D1",
     working_time |-> "", docstatus |-> 1]

InitAtt ==
    /\ self = Idle
    /\ outcome = "idle"
    /\ attendance \in {<<>>, <<OnLeave>>}
    /\ timesheets = {}
    /\ next_name = 1
    /\ docstatus = [n \in {r.name : r \in WorkingTimes} |-> 0]
    /\ savepoint = NoSavepoint
    /\ NoRound

NextAtt ==
    \/ AttendanceSubmits
    \/ WorkingTimeAmended
    \/ RequestEnds

SpecAtt == InitAtt /\ [][NextAtt]_vars

-----------------------------------------------------------------------------
(* Properties of the submit and cancel hooks *)

Linked(t, name) == t.freelancer_time = name

\* C1: on_cancel of a FreelancerTime deletes exactly the draft Timesheets linked
\* to it: afterwards no linked draft is left, and every submitted Timesheet and
\* every Timesheet of another record is there unchanged; with no linked draft the
\* table is as it was.
C1_CancelDeletesLinkedDrafts ==
    outcome = "cancelled" =>
        /\ \A t \in timesheets : ~(Linked(t, self.name) /\ t.docstatus = 0)
        /\ timesheets \subseteq savepoint.timesheets
        /\ \A t \in savepoint.timesheets :
              (t.docstatus = 1 \/ ~Linked(t, self.name)) => t \in timesheets
        /\ (\A t \in savepoint.timesheets : ~(Linked(t, self.name) /\ t.docstatus = 0))
              => timesheets = savepoint.timesheets

C1_Witness ==
    /\ outcome = "cancelled"
    /\ \E t \in savepoint.timesheets :
          Linked(t, self.name) /\ t.docstatus = 0 /\ t \notin timesheets
    /\ \E t \in timesheets : Linked(t, self.name) /\ t.docstatus = 1
    /\ \E t \in timesheets : ~Linked(t, self.name) /\ t.docstatus = 0

SamePair(a, b) == a.employee = b.employee /\ a.attendance_date = b.attendance_date

\* C2: whatever WorkingTimes were submitted one after the other, no two Attendances
\* have the same employee and date; a submit adds one Attendance when its employee
\* and date had none and leaves the table as it was when they had one.
C2_OneAttendancePerEmployeeAndDate ==
    /\ \A i, j \in 1..Len(attendance) : SamePair(attendance[i], attendance[j]) => i = j
    /\ outcome = "submitted" =>
          LET found == savepoint.attendance
              had == \E i \in 1..Len(found) :
                        /\ found[i].employee = self.employee
                        /\ found[i].attendance_date = self.date
          IN  IF had
              THEN attendance = found
              ELSE /\ Len(attendance) = Len(found) + 1
                   /\ SubSeq(attendance, 1, Len(found)) = found
                   /\ attendance[Len(attendance)].employee = self.employee
                   /\ attendance[Len(attendance)].attendance_date = self.date

C2_Witness ==
    /\ outcome = "submitted"
    /\ attendance = savepoint.attendance
    /\ \E i \in 1..Len(attendance) :
          /\ attendance[i].employee = self.employee
          /\ attendance[i].attendance_date = self.date
          /\ attendance[i].working_time = self.name
    /\ \E i \in 1..Len(attendance) :
          /\ attendance[i].employee = self.employee
          /\ attendance[i].attendance_date # self.date

HasNegativeDuration(doc) ==
    \E i \in 1..Len(doc.time_logs) :
        doc.time_logs[i].duration # None /\ doc.time_logs[i].duration[1] < 0

\* C3: a WorkingTime with a log of negative computed duration is rejected by
\* validate: its submit does not reach on_submit, the record stays a draft, and
\* no Attendance and no Timesheet is created.
C3_NegativeDurationRejected ==
    (self.doctype = "Working Time" /\ outcome # "idle" /\ HasNegativeDuration(self)) =>
        /\ outcome = "rejected"
        /\ attendance = savepoint.attendance
        /\ timesheets = savepoint.timesheets
        /\ docstatus[self.name] = 0

C3_Witness ==
    /\ outcome = "rejected"
    /\ Len(self.time_logs) = 2
    /\ self.time_logs[1].duration = Some(-13500)
    /\ self.time_logs[1].project = "P1"
    /\ self.time_logs[2].duration = Some(28800)
    /\ self.time_logs[2].project = "P1"

Qualifying(log) == log.duration # None /\ log.duration[1] > 0 /\ log.project # ""

NumberQualifying(doc) ==
    Cardinality({ i \in 1..Len(doc.time_logs) : Qualifying(doc.time_logs[i]) })

Created == timesheets \ savepoint.timesheets

\* C4: a submit of a WorkingTime or a FreelancerTime creates one single-line
\* Timesheet for each log with duration > 0 and a project, and none for any other
\* log: as many Timesheets as there are such logs.
C4_OneTimesheetPerQualifyingLog ==
    outcome = "submitted" =>
        /\ Cardinality(Created) = NumberQualifying(self)
        /\ \A t \in Created : Len(t.time_logs) = 1
        /\ \A i \in 1..Len(self.time_logs) :
              Qualifying(self.time_logs[i]) =>
                  \E t \in Created : t.time_logs[1].project = self.time_logs[i].project

\* C6: when a lookup fails while on_submit works through the logs, the submit is
\* aborted and no Timesheet of its earlier logs is kept; a submit that ends well
\* has created the Timesheets of all its logs with duration > 0 and a project.
C6_SubmitAllOrNothing ==
    /\ outcome = "failed" =>
          /\ timesheets = savepoint.timesheets
          /\ next_name = savepoint.next_name
          /\ docstatus[self.name] = 0
    /\ outcome = "submitted" =>
          Cardinality({ t \in Created : t.time_logs[1].hours.num > 0 })
              = NumberQualifying(self)

C6_Witness ==
    /\ outcome = "failed"
    /\ self.doctype = "Working Time"
    /\ Len(self.time_logs) = 2
    /\ Qualifying(self.time_logs[1])
    /\ self.time_logs[1].project = "P1"
    /\ self.time_logs[1].key = ""
    /\ Qualifying(self.time_logs[2])
    /\ self.time_logs[2].project = "PX"
    /\ savepoint.timesheets # {}
    /\ timesheets = savepoint.timesheets

\* C5: an Attendance created by create_attendance is "Present" when working_time
\* is more than 13455 s and "Half Day" otherwise: 13455 gives "Half Day", 13456
\* gives "Present".
C5_PresentAboveHalfDay ==
    (outcome = "submitted" /\ Len(attendance) = Len(savepoint.attendance) + 1) =>
        LET status == attendance[Len(attendance)].status
        IN  /\ status \in {"Present", "Half Day"}
            /\ status = "Present" <=> self.working_time > 13455
            /\ self.working_time = 13455 => status = "Half Day"
            /\ self.working_time = 13456 => status = "Present"

C5_Witness ==
    /\ outcome = "submitted"
    /\ Len(attendance) = Len(savepoint.attendance) + 1
    /\ self.working_time = 13455
    /\ attendance[Len(attendance)].status = "Half Day"

====
